---- MODULE Spec2Model ----
(***************************************************************************)
(* Account directory of the Vibanda Village admin backend: the users       *)
(* collection, the startup bootstrap of the test account, and the          *)
(* Register / Login / CreateUser / UpdateUser / DeleteUser handlers.       *)
(***************************************************************************)
EXTENDS Integers, FiniteSets, Sequences, TLC

(* ---------- bounds ---------- *)
\* number of ObjectIDs primitive.NewObjectID() hands out in one behaviour
MaxUsers == 3
\* number of requests that can be between their existence check and their insert
MaxPending == 2
\* last value of the clock
MaxClock == 1

(* ---------- constants of the program ---------- *)
RoleAdmin == "admin"
RoleManager == "manager"
RoleStaff == "staff"
StatusActive == "active"
StatusInactive == "inactive"

TestEmail == "testandtest@gmail.com"
TestUsername == "testuser"
TestPassword == "12345678"
TestName == "Test User"

Roles == {RoleAdmin, RoleManager, RoleStaff}
Statuses == {StatusActive, StatusInactive}

(* ---------- input domains ---------- *)
Emails == {TestEmail, "a@x.com"}
Usernames == {TestUsername, "alice"}
Passwords == {TestPassword}
LoginPasswords == {TestPassword, "wrong"}
Names == {TestName}
Ids == 1..MaxUsers
\* nil *time.Time
NoTime == -1
\* lifetime of a token in clock ticks (JWTExpirationHours)
TokenTTL == 1
\* a string field left out of a JSON body decodes to the zero value ""
Omitted == ""
\* the identity of a request whose context lacks the key the handler reads
NoActor == 0

VARIABLES
    DB,         \* database.DB is set (InitDB has run)
    store,      \* documents of the "users" collection
    nextId,     \* next value of primitive.NewObjectID()
    now,        \* time.Now()
    pending,    \* requests that passed their existence check and have not inserted yet
    tokens,     \* bearer tokens the client holds
    call,       \* the last request served and the response written for it
    boot,       \* the position of InitDB in its health check
    products,   \* documents of the "products" collection
    orders      \* documents of the "orders" collection

vars == <<DB, store, nextId, now, pending, tokens, call, boot, products, orders>>

(* ---------- HTTP status codes (net/http) ---------- *)
StatusOK == 200
StatusCreated == 201
StatusNoContent == 204
StatusUnauthorized == 401
StatusForbidden == 403
StatusNotFound == 404
StatusConflict == 409
StatusInternalServerError == 500

(* ---------- pkg/utils ---------- *)
HashPassword(p) == <<"bcrypt", p>>
CheckPassword(p, h) == h = HashPassword(p)
\* the claims of a token signed for an account at time t
GenerateToken(u, t) == [sub |-> u.id, role |-> u.role, exp |-> t + TokenTTL]

(* ---------- persistence ---------- *)
FindById(s, id) == {u \in s : u.id = id}
FindByEmail(s, e) == {u \in s : u.email = e}
FindByEmailOrUsername(s, e, n) == {u \in s : u.email = e \/ u.username = n}
FindEmailOther(s, e, id) == {u \in s : u.email = e /\ u.id # id}
FindUsernameOther(s, n, id) == {u \in s : u.username = n /\ u.id # id}
ReplaceOne(s, old, new) == (s \ {old}) \cup {new}

NewUser(id, name, email, username, password, role, t) ==
    [id |-> id, name |-> name, email |-> email, username |-> username,
     password |-> HashPassword(password), role |-> role, status |-> StatusActive,
     last_login |-> NoTime, created_at |-> t, updated_at |-> t]

\* a nil response body
Null == [null |-> TRUE]
\* ErrorResponse{Error: msg}
ErrorResponse(msg) == [error |-> msg]

\* the request served last (handler, identity in the context, account addressed or
\* created, return statement reached) and the status, error message and body c.JSON wrote
NoCall == [op |-> "none", actor |-> 0, id |-> 0, at |-> "", code |-> 0, error |-> "", body |-> Null]
Respond(op, actor, id, at, code, error) ==
    [op |-> op, actor |-> actor, id |-> id, at |-> at, code |-> code, error |-> error,
     body |-> IF error # "" THEN ErrorResponse(error) ELSE Null]
\* a response that carries a document
RespondJSON(op, actor, id, at, code, body) ==
    [op |-> op, actor |-> actor, id |-> id, at |-> at, code |-> code, error |-> "", body |-> body]

(* ---------- the health check of InitDB ---------- *)
maxRetries == 3
\* the process at the head of the ping loop: i is the loop index, pings the
\* pings made, waits the sleeps made (in seconds)
Starting == [pc |-> "ping", i |-> 0, pings |-> 0, waits |-> <<>>]
\* the process past a loop whose first ping succeeded
FirstPingOk == [pc |-> "serving", i |-> 0, pings |-> 1, waits |-> <<>>]
\* mutant: the delay does not grow
Backoff_Constant(i) == 1
\* time.Duration(i+1) * time.Second
Backoff(i) == i + 1

Init ==
    /\ DB = FALSE
    /\ store = {}
    /\ nextId = 1
    /\ now = 0
    /\ pending = {}
    /\ tokens = {}
    /\ call = NoCall
    /\ boot = Starting
    /\ products = {}
    /\ orders = {}

(* ---------- request bodies ---------- *)
RegisterRequest(name, email, username, password, role) ==
    [name |-> name, email |-> email, username |-> username, password |-> password, role |-> role]
RegisterRequests ==
    {RegisterRequest(n, e, u, p, r) : n \in Names, e \in Emails, u \in Usernames, p \in Passwords, r \in Roles}
LoginRequests == [email : Emails, password : LoginPasswords]

\* UpdateUserRequest with every field left out
EmptyPatch == [name |-> Omitted, email |-> Omitted, username |-> Omitted, role |-> Omitted, status |-> Omitted]
EmailPatches == {[EmptyPatch EXCEPT !.email = e] : e \in Emails}
UsernamePatches == {[EmptyPatch EXCEPT !.username = u] : u \in Usernames}
RolePatches == {[EmptyPatch EXCEPT !.role = r] : r \in Roles}
StatusPatches == {[EmptyPatch EXCEPT !.status = st] : st \in Statuses}
UpdateUserRequests == {EmptyPatch} \cup EmailPatches \cup UsernamePatches \cup RolePatches \cup StatusPatches

\* patches of the partial-update specification: no field, one field, several fields
NamePatches == {[EmptyPatch EXCEPT !.name = "New Name"]}
MultiPatches == {[EmptyPatch EXCEPT !.name = "New Name", !.role = RoleManager, !.status = StatusInactive]}
UpdatePatches == {EmptyPatch} \cup NamePatches \cup EmailPatches \cup UsernamePatches \cup MultiPatches

\* requests of the role-policy specification: two fixed identities, every role string
\* (ShouldBindJSON applies no "validate" tag, so a missing role is accepted)
PolicyRoles == Roles \cup {Omitted}
PolicyRegisterRequests ==
    {RegisterRequest(TestName, id[1], id[2], TestPassword, r) :
        id \in {<<"a@x.com", "alice">>, <<"b@x.com", "bob">>}, r \in PolicyRoles}
PolicyUpdateRequests == {EmptyPatch} \cup RolePatches

(* ---------- Role Policy as coded in the handlers ---------- *)
\* mutant: a manager is only kept from creating admins
CreateUserPermission_Mutant(actorRole, reqRole) ==
    IF actorRole = RoleAdmin
    THEN IF reqRole = RoleAdmin THEN "Admin cannot create other admins" ELSE ""
    ELSE IF actorRole = RoleManager
         THEN IF reqRole = RoleAdmin THEN "Manager can only create staff accounts" ELSE ""
         ELSE "Staff cannot create user accounts"

\* "" when the actor may proceed, else the message of the 403 response
CreateUserPermission(actorRole, reqRole) ==
    IF actorRole = RoleAdmin
    THEN IF reqRole = RoleAdmin THEN "Admin cannot create other admins" ELSE ""
    ELSE IF actorRole = RoleManager
         THEN IF reqRole # RoleStaff THEN "Manager can only create staff accounts" ELSE ""
         ELSE "Staff cannot create user accounts"

\* mutant: the check of the role field in the manager branch is missing
UpdateUserPermission_Mutant(actorRole, targetRole, reqRole) ==
    IF actorRole = RoleAdmin
    THEN IF reqRole # Omitted /\ targetRole = RoleAdmin /\ reqRole # RoleAdmin
         THEN "Admin cannot change other admins' roles" ELSE ""
    ELSE IF actorRole = RoleManager
         THEN IF targetRole # RoleStaff THEN "Manager can only update staff accounts" ELSE ""
         ELSE "Staff cannot update user accounts"

UpdateUserPermission(actorRole, targetRole, reqRole) ==
    IF actorRole = RoleAdmin
    THEN IF reqRole # Omitted /\ targetRole = RoleAdmin /\ reqRole # RoleAdmin
         THEN "Admin cannot change other admins' roles" ELSE ""
    ELSE IF actorRole = RoleManager
         THEN IF targetRole # RoleStaff THEN "Manager can only update staff accounts"
              ELSE IF reqRole # Omitted THEN "Manager cannot change user roles" ELSE ""
         ELSE "Staff cannot update user accounts"

\* mutant: the admin rule protects admins only
DeleteUserPermission_Mutant(actorRole, targetRole) ==
    IF actorRole = RoleAdmin /\ targetRole = RoleAdmin
    THEN "Admin cannot delete other admins or managers"
    ELSE IF actorRole = RoleManager /\ targetRole = RoleAdmin
         THEN "Manager cannot delete admin" ELSE ""

\* mutant: the admin rule protects managers only
DeleteUserPermission_AdminsOpen(actorRole, targetRole) ==
    IF actorRole = RoleAdmin /\ targetRole = RoleManager
    THEN "Admin cannot delete other admins or managers"
    ELSE IF actorRole = RoleManager /\ targetRole = RoleAdmin
         THEN "Manager cannot delete admin" ELSE ""

DeleteUserPermission(actorRole, targetRole) ==
    IF actorRole = RoleAdmin /\ (targetRole = RoleAdmin \/ targetRole = RoleManager)
    THEN "Admin cannot delete other admins or managers"
    ELSE IF actorRole = RoleManager /\ targetRole = RoleAdmin
         THEN "Manager cannot delete admin" ELSE ""

\* mutant: the fields of the patch are written as they came, also when left out
ApplyPatch_Mutant(u, p, t) ==
    [u EXCEPT !.email = IF p.email # Omitted THEN p.email ELSE @,
              !.username = IF p.username # Omitted THEN p.username ELSE @,
              !.name = p.name,
              !.role = IF p.role # Omitted THEN p.role ELSE @,
              !.status = IF p.status # Omitted THEN p.status ELSE @,
              !.updated_at = t]

\* the partial update of UpdateUser: a zero-valued field keeps the stored value
ApplyPatch(u, p, t) ==
    [u EXCEPT !.email = IF p.email # Omitted THEN p.email ELSE @,
              !.username = IF p.username # Omitted THEN p.username ELSE @,
              !.name = IF p.name # Omitted THEN p.name ELSE @,
              !.role = IF p.role # Omitted THEN p.role ELSE @,
              !.status = IF p.status # Omitted THEN p.status ELSE @,
              !.updated_at = t]

\* mutant: the projection copies the password field as well
ToResponse_Mutant(u) ==
    [id |-> u.id, name |-> u.name, email |-> u.email, username |-> u.username,
     password |-> u.password, role |-> u.role, status |-> u.status, last_login |-> u.last_login,
     created_at |-> u.created_at, updated_at |-> u.updated_at]

\* the outward projection of an account
ToResponse(u) ==
    [id |-> u.id, name |-> u.name, email |-> u.email, username |-> u.username,
     role |-> u.role, status |-> u.status, last_login |-> u.last_login,
     created_at |-> u.created_at, updated_at |-> u.updated_at]

\* messages of the two revisions of the Login handler
LoginMessages(v) ==
    IF v = 1
    THEN [invalid |-> "Invalid credentials", badpw |-> "Invalid credentials",
          inactive |-> "Account is not active"]
    ELSE [invalid |-> "The email or password you entered is incorrect. Please check your credentials and try again.",
          badpw |-> "The email or password you entered is incorrect. Please check your credentials and try again.",
          inactive |-> "Your account is currently inactive. Please contact support for assistance."]
LoginRevisions == {1, 2}

(* ---------- operations ---------- *)
\* time passes between two requests
Tick ==
    /\ now < MaxClock
    /\ now' = now + 1
    /\ call' = Respond("Tick", 0, 0, "", 0, "")
    /\ UNCHANGED <<products, orders, DB, store, nextId, pending, tokens, boot>>

\* the document createTestUserIfNotExists inserts
TestUser(id, t) == NewUser(id, TestName, TestEmail, TestUsername, TestPassword, RoleAdmin, t)
createTestUserIfNotExists ==
    IF FindByEmail(store, TestEmail) # {}
    THEN UNCHANGED <<store, nextId>>
    ELSE /\ nextId <= MaxUsers
         /\ store' = store \cup {TestUser(nextId, now)}
         /\ nextId' = nextId + 1

\* the end of InitDB: the handle is set, the test account is created when absent
Establish ==
    /\ DB' = TRUE
    /\ createTestUserIfNotExists
    /\ call' = Respond("InitDB", 0, 0, "", 0, "")
    /\ UNCHANGED <<products, orders, now, pending, tokens>>

\* process start with a database that answers the first ping
InitDB ==
    /\ Establish
    /\ boot' = FirstPingOk

\* client.Ping with its 5 s timeout: it succeeds or it fails
Ping ==
    /\ boot.pc = "ping"
    /\ boot.i < maxRetries
    /\ \E ok \in BOOLEAN :
          /\ boot' = [boot EXCEPT !.pings = @ + 1,
                                  !.pc = IF ok THEN "connected"
                                         ELSE IF boot.i = maxRetries - 1 THEN "fatal" ELSE "sleep"]
          /\ call' = Respond("Ping", 0, boot.i, IF ok THEN "ok" ELSE "failed", 0, "")
    /\ UNCHANGED <<products, orders, DB, store, nextId, now, pending, tokens>>

\* time.Sleep after a failed ping that was not the last; continue
Sleep ==
    /\ boot.pc = "sleep"
    /\ boot' = [boot EXCEPT !.waits = Append(@, Backoff(boot.i)), !.i = @ + 1, !.pc = "ping"]
    /\ call' = Respond("Sleep", 0, boot.i, "", 0, "")
    /\ UNCHANGED <<products, orders, DB, store, nextId, now, pending, tokens>>

\* break: the rest of InitDB runs and main goes on to serve
Connected ==
    /\ boot.pc = "connected"
    /\ Establish
    /\ boot' = [boot EXCEPT !.pc = "serving"]

\* mutant: the existence check looks at the email only
RegisterExists_Mutant(s, req) == FindByEmail(s, req.email) # {}

RegisterExists(s, req) == FindByEmailOrUsername(s, req.email, req.username) # {}

Register(req) ==
    /\ DB
    /\ IF RegisterExists(store, req)
       THEN /\ call' = Respond("Register", 0, 0, "exists", StatusConflict,
                               "User with this email or username already exists")
            /\ UNCHANGED <<store, nextId>>
       ELSE /\ nextId <= MaxUsers
            /\ LET user == NewUser(nextId, req.name, req.email, req.username, req.password, req.role, now)
               IN /\ store' = store \cup {user}
                  /\ call' = RespondJSON("Register", 0, user.id, "created", StatusCreated, ToResponse(user))
            /\ nextId' = nextId + 1
    /\ UNCHANGED <<products, orders, DB, now, pending, tokens, boot>>

\* mutant: a wrong password is reported with a message of its own
LoginOutcome_Mutant(v, s, req, u) ==
    IF u = <<>> THEN [at |-> "nouser", code |-> StatusUnauthorized, error |-> LoginMessages(v).invalid]
    ELSE IF ~CheckPassword(req.password, u.password)
         THEN [at |-> "badpw", code |-> StatusUnauthorized, error |-> "Wrong password"]
         ELSE IF u.status # StatusActive
              THEN [at |-> "inactive", code |-> StatusUnauthorized, error |-> LoginMessages(v).inactive]
              ELSE [at |-> "ok", code |-> StatusOK, error |-> ""]

\* mutant: the status of the account is not looked at
LoginOutcome_NoStatus(v, s, req, u) ==
    IF u = <<>> THEN [at |-> "nouser", code |-> StatusUnauthorized, error |-> LoginMessages(v).invalid]
    ELSE IF ~CheckPassword(req.password, u.password)
         THEN [at |-> "badpw", code |-> StatusUnauthorized, error |-> LoginMessages(v).badpw]
         ELSE [at |-> "ok", code |-> StatusOK, error |-> ""]

LoginOutcome(v, s, req, u) ==
    IF u = <<>> THEN [at |-> "nouser", code |-> StatusUnauthorized, error |-> LoginMessages(v).invalid]
    ELSE IF ~CheckPassword(req.password, u.password)
         THEN [at |-> "badpw", code |-> StatusUnauthorized, error |-> LoginMessages(v).badpw]
         ELSE IF u.status # StatusActive
              THEN [at |-> "inactive", code |-> StatusUnauthorized, error |-> LoginMessages(v).inactive]
              ELSE [at |-> "ok", code |-> StatusOK, error |-> ""]

\* mutant: the login also rewrites the display name
StampLogin_Name(u, t) == [u EXCEPT !.last_login = t, !.updated_at = t, !.name = "New Name"]

\* mutant: only updated_at is stamped
StampLogin_Mutant(u, t) == [u EXCEPT !.updated_at = t]

\* user.LastLogin = &now; user.UpdatedAt = now
StampLogin(u, t) == [u EXCEPT !.last_login = t, !.updated_at = t]

LoginResponse(token, user) == [token |-> token, user |-> user]

Login(v, req) ==
    /\ DB
    /\ \E u \in (IF FindByEmail(store, req.email) = {} THEN {<<>>} ELSE FindByEmail(store, req.email)) :
         LET o == LoginOutcome(v, store, req, u)
         IN IF o.code # StatusOK
            THEN /\ call' = Respond("Login", 0, 0, o.at, o.code, o.error)
                 /\ UNCHANGED store
            ELSE \E updated \in BOOLEAN :
                   LET user == StampLogin(u, now)
                   IN /\ store' = IF updated THEN ReplaceOne(store, u, user) ELSE store
                      /\ call' = RespondJSON("Login", 0, u.id, o.at, StatusOK,
                                              LoginResponse(GenerateToken(user, now), ToResponse(user)))
    /\ UNCHANGED <<products, orders, DB, nextId, now, pending, boot>>

CreateUser(actor, req) ==
    /\ DB
    /\ IF actor = NoActor
       THEN /\ call' = Respond("CreateUser", actor, 0, "nocontext", StatusUnauthorized, "Unauthorized")
            /\ UNCHANGED <<store, nextId>>
       ELSE IF FindById(store, actor) = {}
       THEN /\ call' = Respond("CreateUser", actor, 0, "nocurrent", StatusInternalServerError,
                               "Failed to get current user")
            /\ UNCHANGED <<store, nextId>>
       ELSE \E currentUser \in FindById(store, actor) :
              IF CreateUserPermission(currentUser.role, req.role) # ""
              THEN /\ call' = Respond("CreateUser", actor, 0, "forbidden", StatusForbidden,
                                      CreateUserPermission(currentUser.role, req.role))
                   /\ UNCHANGED <<store, nextId>>
              ELSE IF RegisterExists(store, req)
                   THEN /\ call' = Respond("CreateUser", actor, 0, "exists", StatusConflict,
                                           "User with this email or username already exists")
                        /\ UNCHANGED <<store, nextId>>
                   ELSE /\ nextId <= MaxUsers
                        /\ LET user == NewUser(nextId, req.name, req.email, req.username,
                                               req.password, req.role, now)
                           IN /\ store' = store \cup {user}
                              /\ call' = RespondJSON("CreateUser", actor, user.id, "created", StatusCreated,
                                                      ToResponse(user))
                        /\ nextId' = nextId + 1
    /\ UNCHANGED <<products, orders, DB, now, pending, tokens, boot>>

\* mutant: the own current email or username counts as taken, and a username
\* taken by another account does not
UpdateUserConflict_Mutant(s, user, req) ==
    IF req.email # Omitted /\ FindByEmail(s, req.email) # {}
    THEN "Email already in use"
    ELSE IF req.username # Omitted /\ req.username = user.username
         THEN "Username already in use" ELSE ""

\* "" or the message of the 409 response
UpdateUserConflict(s, user, req) ==
    IF req.email # Omitted /\ req.email # user.email /\ FindEmailOther(s, req.email, user.id) # {}
    THEN "Email already in use"
    ELSE IF req.username # Omitted /\ req.username # user.username
            /\ FindUsernameOther(s, req.username, user.id) # {}
         THEN "Username already in use" ELSE ""

\* mutant: a staff actor is refused before the target is looked up
UpdateUser_Mutant(actor, id, req) ==
    /\ DB
    /\ IF actor = NoActor
       THEN /\ call' = Respond("UpdateUser", actor, id, "nocontext", StatusUnauthorized, "Unauthorized")
            /\ UNCHANGED store
       ELSE IF FindById(store, actor) = {}
       THEN /\ call' = Respond("UpdateUser", actor, id, "nocurrent", StatusInternalServerError,
                               "Failed to get current user")
            /\ UNCHANGED store
       ELSE \E currentUser \in FindById(store, actor) :
              IF currentUser.role \notin {RoleAdmin, RoleManager}
              THEN /\ call' = Respond("UpdateUser", actor, id, "forbidden", StatusForbidden,
                                      "Staff cannot update user accounts")
                   /\ UNCHANGED store
              ELSE IF FindById(store, id) = {}
              THEN /\ call' = Respond("UpdateUser", actor, id, "notfound", StatusNotFound, "User not found")
                   /\ UNCHANGED store
              ELSE \E user \in FindById(store, id) :
                     IF UpdateUserPermission(currentUser.role, user.role, req.role) # ""
                     THEN /\ call' = Respond("UpdateUser", actor, id, "forbidden", StatusForbidden,
                                             UpdateUserPermission(currentUser.role, user.role, req.role))
                          /\ UNCHANGED store
                     ELSE IF UpdateUserConflict(store, user, req) # ""
                          THEN /\ call' = Respond("UpdateUser", actor, id, "conflict", StatusConflict,
                                                  UpdateUserConflict(store, user, req))
                               /\ UNCHANGED store
                          ELSE /\ store' = ReplaceOne(store, user, ApplyPatch(user, req, now))
                               /\ call' = RespondJSON("UpdateUser", actor, id, "updated", StatusOK,
                                                       ToResponse(ApplyPatch(user, req, now)))
    /\ UNCHANGED <<products, orders, DB, nextId, now, pending, tokens, boot>>

UpdateUser(actor, id, req) ==
    /\ DB
    /\ IF actor = NoActor
       THEN /\ call' = Respond("UpdateUser", actor, id, "nocontext", StatusUnauthorized, "Unauthorized")
            /\ UNCHANGED store
       ELSE IF FindById(store, actor) = {}
       THEN /\ call' = Respond("UpdateUser", actor, id, "nocurrent", StatusInternalServerError,
                               "Failed to get current user")
            /\ UNCHANGED store
       ELSE IF FindById(store, id) = {}
       THEN /\ call' = Respond("UpdateUser", actor, id, "notfound", StatusNotFound, "User not found")
            /\ UNCHANGED store
       ELSE \E currentUser \in FindById(store, actor), user \in FindById(store, id) :
              IF UpdateUserPermission(currentUser.role, user.role, req.role) # ""
              THEN /\ call' = Respond("UpdateUser", actor, id, "forbidden", StatusForbidden,
                                      UpdateUserPermission(currentUser.role, user.role, req.role))
                   /\ UNCHANGED store
              ELSE IF UpdateUserConflict(store, user, req) # ""
                   THEN /\ call' = Respond("UpdateUser", actor, id, "conflict", StatusConflict,
                                           UpdateUserConflict(store, user, req))
                        /\ UNCHANGED store
                   ELSE /\ store' = ReplaceOne(store, user, ApplyPatch(user, req, now))
                        /\ call' = RespondJSON("UpdateUser", actor, id, "updated", StatusOK,
                                                ToResponse(ApplyPatch(user, req, now)))
    /\ UNCHANGED <<products, orders, DB, nextId, now, pending, tokens, boot>>

\* mutant: an actor whose account is gone is treated as an actor without rank
DeleteUser_GoneActor(actor, id) ==
    /\ DB
    /\ IF FindById(store, id) = {}
       THEN /\ call' = Respond("DeleteUser", actor, id, "notfound", StatusNotFound, "User not found")
            /\ UNCHANGED store
       ELSE IF actor = NoActor
       THEN /\ call' = Respond("DeleteUser", actor, id, "nocontext", StatusUnauthorized, "Unauthorized")
            /\ UNCHANGED store
       ELSE \E user \in FindById(store, id) :
              LET role == IF FindById(store, actor) = {} THEN Omitted
                          ELSE (CHOOSE u \in FindById(store, actor) : TRUE).role
              IN IF DeleteUserPermission(role, user.role) # ""
                 THEN /\ call' = Respond("DeleteUser", actor, id, "forbidden", StatusForbidden,
                                         DeleteUserPermission(role, user.role))
                      /\ UNCHANGED store
                 ELSE /\ store' = store \ {user}
                      /\ call' = Respond("DeleteUser", actor, id, "deleted", StatusNoContent, "")
    /\ UNCHANGED <<products, orders, DB, nextId, now, pending, tokens, boot>>

DeleteUser(actor, id) ==
    /\ DB
    /\ IF FindById(store, id) = {}
       THEN /\ call' = Respond("DeleteUser", actor, id, "notfound", StatusNotFound, "User not found")
            /\ UNCHANGED store
       ELSE IF actor = NoActor
       THEN /\ call' = Respond("DeleteUser", actor, id, "nocontext", StatusUnauthorized, "Unauthorized")
            /\ UNCHANGED store
       ELSE IF FindById(store, actor) = {}
       THEN /\ call' = Respond("DeleteUser", actor, id, "nocurrent", StatusInternalServerError,
                               "Failed to get current user")
            /\ UNCHANGED store
       ELSE \E currentUser \in FindById(store, actor), user \in FindById(store, id) :
              IF DeleteUserPermission(currentUser.role, user.role) # ""
              THEN /\ call' = Respond("DeleteUser", actor, id, "forbidden", StatusForbidden,
                                      DeleteUserPermission(currentUser.role, user.role))
                   /\ UNCHANGED store
              ELSE /\ store' = store \ {user}
                   /\ call' = Respond("DeleteUser", actor, id, "deleted", StatusNoContent, "")
    /\ UNCHANGED <<products, orders, DB, nextId, now, pending, tokens, boot>>

\* identities a bearer token can name: every account ever created could have logged in
Actors == 1..(nextId - 1)

DoRegister(R) == \E req \in R : Register(req)
\* a login whose token the client does not use afterwards
DoLogin == \E v \in LoginRevisions, req \in LoginRequests : Login(v, req) /\ UNCHANGED tokens
DoCreateUser(R) == \E actor \in Actors, req \in R : CreateUser(actor, req)
DoUpdateUser(P) == \E actor \in Actors, id \in Ids, req \in P : UpdateUser(actor, id, req)
DoDeleteUser == \E actor \in Actors, id \in Ids : DeleteUser(actor, id)

\* every handler, served one request at a time
Next ==
    \/ InitDB
    \/ DoRegister(RegisterRequests)
    \/ DoLogin
    \/ DoCreateUser(RegisterRequests)
    \/ DoUpdateUser(UpdateUserRequests)
    \/ DoDeleteUser

Spec == Init /\ [][Next]_vars

\* the user-management handlers over accounts of every role
NextPolicy ==
    \/ InitDB
    \/ DoRegister(PolicyRegisterRequests)
    \/ DoCreateUser(PolicyRegisterRequests)
    \/ DoUpdateUser(PolicyUpdateRequests)
    \/ DoDeleteUser

SpecPolicy == Init /\ [][NextPolicy]_vars

\* logins over time against accounts whose status changes
LoginRegisterRequests == {RegisterRequest(TestName, "a@x.com", "alice", TestPassword, RoleStaff)}
NextLogin ==
    \/ Tick
    \/ InitDB
    \/ DoRegister(LoginRegisterRequests)
    \/ DoLogin
    \/ DoUpdateUser(StatusPatches)

SpecLogin == Init /\ [][NextLogin]_vars

\* partial updates over time
NextUpdate ==
    \/ Tick
    \/ InitDB
    \/ DoRegister(LoginRegisterRequests)
    \/ DoUpdateUser(UpdatePatches)

SpecUpdate == Init /\ [][NextUpdate]_vars

(* ---------- concurrent requests ---------- *)
\* Handlers run on separate goroutines: between the FindOne of the existence
\* check and the InsertOne another request can run.  No index is created on
\* the collection, so InsertOne accepts any document with a fresh _id.
FreeConns == {c \in 1..MaxPending : \A p \in pending : p.conn # c}

RegisterCheck(conn, req) ==
    /\ DB
    /\ conn \in FreeConns
    /\ IF RegisterExists(store, req)
       THEN /\ call' = Respond("Register", 0, 0, "exists", StatusConflict,
                               "User with this email or username already exists")
            /\ UNCHANGED pending
       ELSE /\ pending' = pending \cup {[conn |-> conn, op |-> "Register", actor |-> 0, req |-> req]}
            /\ call' = Respond("Register", 0, 0, "checked", 0, "")
    /\ UNCHANGED <<products, orders, DB, store, nextId, now, tokens, boot>>

CreateUserCheck(conn, actor, req) ==
    /\ DB
    /\ conn \in FreeConns
    /\ IF FindById(store, actor) = {}
       THEN /\ call' = Respond("CreateUser", actor, 0, "nocurrent", StatusInternalServerError,
                               "Failed to get current user")
            /\ UNCHANGED pending
       ELSE \E currentUser \in FindById(store, actor) :
              IF CreateUserPermission(currentUser.role, req.role) # ""
              THEN /\ call' = Respond("CreateUser", actor, 0, "forbidden", StatusForbidden,
                                      CreateUserPermission(currentUser.role, req.role))
                   /\ UNCHANGED pending
              ELSE IF RegisterExists(store, req)
                   THEN /\ call' = Respond("CreateUser", actor, 0, "exists", StatusConflict,
                                           "User with this email or username already exists")
                        /\ UNCHANGED pending
                   ELSE /\ pending' = pending \cup {[conn |-> conn, op |-> "CreateUser",
                                                     actor |-> actor, req |-> req]}
                        /\ call' = Respond("CreateUser", actor, 0, "checked", 0, "")
    /\ UNCHANGED <<products, orders, DB, store, nextId, now, tokens, boot>>

\* the second half of Register and CreateUser: hash, InsertOne, 201
InsertUser(p) ==
    /\ p \in pending
    /\ nextId <= MaxUsers
    /\ LET user == NewUser(nextId, p.req.name, p.req.email, p.req.username, p.req.password,
                           p.req.role, now)
       IN /\ store' = store \cup {user}
          /\ call' = RespondJSON(p.op, p.actor, user.id, "created", StatusCreated, ToResponse(user))
    /\ nextId' = nextId + 1
    /\ pending' = pending \ {p}
    /\ UNCHANGED <<products, orders, DB, now, tokens, boot>>

DoRegisterCheck == \E conn \in 1..MaxPending, req \in RegisterRequests : RegisterCheck(conn, req)
DoCreateUserCheck ==
    \E conn \in 1..MaxPending, actor \in Actors, req \in RegisterRequests : CreateUserCheck(conn, actor, req)
DoInsertUser == \E p \in pending : InsertUser(p)

NextConc ==
    \/ InitDB
    \/ DoRegisterCheck
    \/ DoCreateUserCheck
    \/ DoInsertUser

SpecConc == Init /\ [][NextConc]_vars

(* ---------- read handlers ---------- *)
\* strconv.Atoi on the query strings used here: the value, or an error
Atoi(param) ==
    CASE param = "0" -> [err |-> FALSE, value |-> 0]
      [] param = "1" -> [err |-> FALSE, value |-> 1]
      [] param = "2" -> [err |-> FALSE, value |-> 2]
      [] param = "-1" -> [err |-> FALSE, value |-> -1]
      [] param = "-2" -> [err |-> FALSE, value |-> -2]
      [] OTHER -> [err |-> TRUE, value |-> 0]
parseIntParam(param, defaultValue) ==
    IF param = "" THEN defaultValue
    ELSE IF ~Atoi(param).err THEN Atoi(param).value ELSE defaultValue

\* query strings of GET /users (no search term)
Queries == [page : {""}, limit : {"", "1"}, role : {"", RoleStaff}, status : {""}]

\* the filter document built from the role and status parameters
Filter(s, q) == {u \in s : (q.role = "" \/ u.role = q.role) /\ (q.status = "" \/ u.status = q.status)}
\* orders in which Find can return the documents under sort {created_at: -1}
RECURSIVE SortedByCreatedAtDesc(_)
SortedByCreatedAtDesc(S) ==
    IF S = {} THEN {<<>>}
    ELSE UNION {{<<u>> \o rest : rest \in SortedByCreatedAtDesc(S \ {u})} :
                    u \in {x \in S : \A y \in S : x.created_at >= y.created_at}}
\* the number of documents Find returns at most: a limit of 0 is no limit, a
\* negative limit asks for a single batch of that size
FindLimit(limit, n) == IF limit = 0 THEN n ELSE IF limit < 0 THEN 0 - limit ELSE limit
\* the documents left by SetSkip and SetLimit
Paginate(users, skip, limit) ==
    [i \in 1..(IF Len(users) - skip < FindLimit(limit, Len(users))
               THEN (IF Len(users) - skip < 0 THEN 0 ELSE Len(users) - skip)
               ELSE FindLimit(limit, Len(users))) |-> users[skip + i]]
\* the quotient of Go's integer division, which truncates toward zero (b # 0)
Abs(a) == IF a < 0 THEN 0 - a ELSE a
Quo(a, b) == IF (a < 0) = (b < 0) THEN Abs(a) \div Abs(b) ELSE 0 - (Abs(a) \div Abs(b))
PaginatedResponse(data, total, page, limit) ==
    [data |-> data, total |-> total, page |-> page, limit |-> limit,
     total_pages |-> Quo(total + limit - 1, limit)]

GetUsers(q) ==
    /\ DB
    /\ LET page == parseIntParam(q.page, 1)
           limit == parseIntParam(q.limit, 10)
       IN IF (page - 1) * limit < 0
          THEN \* the server refuses a negative skip: Find returns an error
               call' = Respond("GetUsers", 0, 0, "find", StatusInternalServerError, "Failed to fetch users")
          ELSE IF limit = 0
          THEN \* the division by int64(limit) panics; gin's Recovery answers 500
               call' = Respond("GetUsers", 0, 0, "panic", StatusInternalServerError, "")
          ELSE \E users \in SortedByCreatedAtDesc(Filter(store, q)) :
                 LET found == Paginate(users, (page - 1) * limit, limit)
                     userResponses == [i \in 1..Len(found) |-> ToResponse(found[i])]
                 IN call' = RespondJSON("GetUsers", 0, 0, "ok", StatusOK,
                                        PaginatedResponse(userResponses, Len(users), page, limit))
    /\ UNCHANGED <<products, orders, DB, store, nextId, now, pending, tokens, boot>>

GetUser(id) ==
    /\ DB
    /\ IF FindById(store, id) = {}
       THEN call' = Respond("GetUser", 0, id, "notfound", StatusNotFound, "User not found")
       ELSE \E user \in FindById(store, id) :
              call' = RespondJSON("GetUser", 0, id, "ok", StatusOK, ToResponse(user))
    /\ UNCHANGED <<products, orders, DB, store, nextId, now, pending, tokens, boot>>

getRolePermissions(role) ==
    CASE role = RoleAdmin ->
           [can_manage_users |-> TRUE, can_manage_roles |-> TRUE, can_manage_system |-> TRUE,
            access_permissions |-> <<"Full system access", "User management", "Role assignment",
                                     "System configuration", "Financial reports", "Inventory management",
                                     "Order processing", "Reservation management", "Event management",
                                     "Customer data access">>]
      [] role = RoleManager ->
           [can_manage_users |-> TRUE, can_manage_roles |-> FALSE, can_manage_system |-> FALSE,
            access_permissions |-> <<"Dashboard access", "Team management", "Order processing",
                                     "Reservation management", "Event management", "Inventory oversight",
                                     "Staff scheduling", "Basic reporting">>]
      [] role = RoleStaff ->
           [can_manage_users |-> FALSE, can_manage_roles |-> FALSE, can_manage_system |-> FALSE,
            access_permissions |-> <<"Dashboard access", "Order processing", "Reservation management",
                                     "Event assistance", "Inventory updates", "Customer service">>]
      [] OTHER ->
           [can_manage_users |-> FALSE, can_manage_roles |-> FALSE, can_manage_system |-> FALSE,
            access_permissions |-> <<>>]

getRoleDisplay(role) ==
    CASE role = RoleAdmin -> "System Administrator"
      [] role = RoleManager -> "Management Team"
      [] role = RoleStaff -> "Staff Member"
      [] OTHER -> role

\* the mock activity list of the profile, with its ages in hours
recentActivities ==
    <<[id |-> "1", description |-> "Logged into admin dashboard", hours_ago |-> 2],
      [id |-> "2", description |-> "Updated profile information", hours_ago |-> 24],
      [id |-> "3", description |-> "Created new user account", hours_ago |-> 48]>>

ProfileResponse(u) ==
    [id |-> u.id, name |-> u.name, email |-> u.email, username |-> u.username,
     role |-> u.role, status |-> u.status, last_login |-> u.last_login,
     created_at |-> u.created_at, updated_at |-> u.updated_at, join_date |-> u.created_at,
     role_display |-> getRoleDisplay(u.role), permissions |-> getRolePermissions(u.role),
     recent_activities |-> recentActivities]

\* messages of the two revisions of the GetProfile handler
ProfileMessages(v) ==
    IF v = 1 THEN "Failed to get user profile"
    ELSE "An error occurred while retrieving your profile. Please try again later."

GetProfile(v, actor) ==
    /\ DB
    /\ IF actor = NoActor
       THEN \* userID.(string) on a nil interface panics; gin's Recovery answers 500
            call' = Respond("GetProfile", actor, actor, "panic", StatusInternalServerError, "")
       ELSE IF FindById(store, actor) = {}
       THEN call' = Respond("GetProfile", actor, actor, "nouser", StatusInternalServerError, ProfileMessages(v))
       ELSE \E user \in FindById(store, actor) :
              call' = RespondJSON("GetProfile", actor, actor, "ok", StatusOK,
                                  IF v = 1 THEN ToResponse(user) ELSE ProfileResponse(user))
    /\ UNCHANGED <<products, orders, DB, store, nextId, now, pending, tokens, boot>>

(* ---------- routes and gates ---------- *)
PublicHandlers == {"Register", "Login"}
ProfileHandlers == {"GetProfile"}
UserHandlers == {"GetUsers", "GetUser", "CreateUser", "UpdateUser", "DeleteUser"}
ResourceHandlers ==
    {"GetProducts", "GetProduct", "CreateProduct", "UpdateProduct", "DeleteProduct",
     "GetOrders", "GetOrder", "CreateOrder", "UpdateOrder", "DeleteOrder",
     "GetEvents", "GetEvent", "CreateEvent", "UpdateEvent", "DeleteEvent",
     "GetReservations", "GetReservation", "CreateReservation", "UpdateReservation",
     "DeleteReservation"}

\* a route: its handler, whether its group uses AuthMiddleware, and the roles of
\* its group's RoleMiddleware ({} when the group has none)
Route(handler, protected, roles) == [handler |-> handler, protected |-> protected, roles |-> roles]

\* mutant: DELETE /users/:id is registered on the public group
Routes_PublicDelete ==
    {Route(h, FALSE, {}) : h \in PublicHandlers \cup {"DeleteUser"}}
        \cup {Route(h, TRUE, {}) : h \in ProfileHandlers}
        \cup {Route(h, TRUE, {RoleAdmin}) : h \in UserHandlers \ {"DeleteUser"}}
        \cup {Route(h, TRUE, {RoleAdmin, RoleManager}) : h \in ResourceHandlers}

\* mutant: POST /auth/register is registered on the protected group
Routes_RegisterProtected ==
    {Route(h, FALSE, {}) : h \in PublicHandlers \ {"Register"}}
        \cup {Route(h, TRUE, {}) : h \in ProfileHandlers \cup {"Register"}}
        \cup {Route(h, TRUE, {RoleAdmin}) : h \in UserHandlers}
        \cup {Route(h, TRUE, {RoleAdmin, RoleManager}) : h \in ResourceHandlers}

\* mutant: the users group admits managers as the other groups do
Routes_UsersForManagers ==
    {Route(h, FALSE, {}) : h \in PublicHandlers}
        \cup {Route(h, TRUE, {}) : h \in ProfileHandlers}
        \cup {Route(h, TRUE, {RoleAdmin, RoleManager}) : h \in UserHandlers \cup ResourceHandlers}

Routes ==
    {Route(h, FALSE, {}) : h \in PublicHandlers}
        \cup {Route(h, TRUE, {}) : h \in ProfileHandlers}
        \cup {Route(h, TRUE, {RoleAdmin}) : h \in UserHandlers}
        \cup {Route(h, TRUE, {RoleAdmin, RoleManager}) : h \in ResourceHandlers}
\* the router's table
RouteTable == [h \in {r.handler : r \in Routes} |-> CHOOSE r \in Routes : r.handler = h]
RouteOf(h) == RouteTable[h]
\* the handlers of the routes documented as requiring a token
ProtectedHandlers == ProfileHandlers \cup UserHandlers \cup ResourceHandlers

\* what a request carries in its Authorization header
NoToken == [sub |-> 0, role |-> "", exp |-> 0]
Missing == [kind |-> "missing", token |-> NoToken]
Malformed == [kind |-> "malformed", token |-> NoToken]
Bearer(t) == [kind |-> "bearer", token |-> t]
Credentials == {Missing, Malformed} \cup {Bearer(t) : t \in tokens}

\* "" when the token verifies at time t, else the AuthError
AuthMiddleware(auth, t) ==
    IF auth.kind = "missing" THEN "Missing"
    ELSE IF auth.kind = "malformed" THEN "Malformed"
    ELSE IF t >= auth.token.exp THEN "Expired" ELSE ""
\* "" when the verified role is one of the roles of the group
RoleMiddleware(roles, auth) == IF auth.token.role \in roles THEN "" ELSE "Insufficient permissions"
\* the identity the gate puts in the context
Subject(auth) == auth.token.sub
\* the keys under which the handlers look the identity up
ProfileKey == "user_id"
UsersKey == "userID"
ContextKeys == {ProfileKey, UsersKey}
\* the gate stores the identity under one of these keys, or under both
KeySets == SUBSET ContextKeys \ {{}}
\* the gin context of a verified request when the gate stores the identity under keys
Context(auth, keys) == [k \in keys |-> Subject(auth)]
\* c.Get(k): the value, or no identity when the key was never set
Get(ctx, k) == IF k \in DOMAIN ctx THEN ctx[k] ELSE NoActor

\* the response of the middleware chain of a route, code 0 when it calls c.Next()
Gate(r, auth, t) ==
    IF r.protected /\ AuthMiddleware(auth, t) # ""
    THEN [at |-> "AuthMiddleware", code |-> StatusUnauthorized, error |-> AuthMiddleware(auth, t)]
    ELSE IF r.protected /\ r.roles # {} /\ RoleMiddleware(r.roles, auth) # ""
         THEN [at |-> "RoleMiddleware", code |-> StatusForbidden, error |-> RoleMiddleware(r.roles, auth)]
         ELSE [at |-> "Next", code |-> 0, error |-> ""]
GateLabels == {"AuthMiddleware", "RoleMiddleware"}

\* a request to the route of handler h: the chain aborts it or the handler runs
Serve(h, auth, run) ==
    LET aborted == Gate(RouteOf(h), auth, now)
    IN IF aborted.code # 0
       THEN /\ DB
            /\ call' = Respond(h, 0, 0, aborted.at, aborted.code, aborted.error)
            /\ UNCHANGED <<products, orders, DB, store, nextId, now, pending, tokens, boot>>
       ELSE run

\* the handlers of products, orders, events and reservations work on collections
\* of their own and leave the accounts alone
ResourceHandler(h) ==
    /\ DB
    /\ call' = Respond(h, 0, 0, "handler", StatusOK, "")
    /\ UNCHANGED <<products, orders, DB, store, nextId, now, pending, tokens, boot>>

\* the client keeps the token of its latest successful login
KeepToken == tokens' = IF call'.code = StatusOK THEN {call'.body.token} ELSE tokens

RouteRegisterRequests ==
    {RegisterRequest(TestName, "a@x.com", "alice", TestPassword, r) : r \in {RoleManager, RoleStaff}}
RouteCreateRequests ==
    {RegisterRequest(TestName, "b@x.com", "bob", TestPassword, r) : r \in {RoleManager, RoleStaff}}
RouteLoginRequests == [email : {TestEmail, "a@x.com"}, password : {TestPassword}]

\* what c.Get(k) can yield in the handler of a verified request: the gate
\* stores the identity under some of the keys
Seen(auth, k) == {Get(Context(auth, keys), k) : keys \in KeySets}

\* the handlers that read the identity of the request from the context
IdentityHandlers == {"GetProfile", "CreateUser", "UpdateUser", "DeleteUser"}
RouteUpdateRequests == {EmptyPatch, [EmptyPatch EXCEPT !.role = RoleStaff]}

\* the handler of a route, run on the context of the request and any input
Handle(h, auth) ==
    CASE h = "Register" -> \E req \in RouteRegisterRequests : Register(req)
      [] h = "Login" -> \E v \in LoginRevisions, req \in RouteLoginRequests : Login(v, req) /\ KeepToken
      [] h = "GetProfile" ->
            \E actor \in Seen(auth, ProfileKey), v \in LoginRevisions : GetProfile(v, actor)
      [] h = "GetUsers" -> \E q \in Queries : GetUsers(q)
      [] h = "GetUser" -> \E id \in Ids : GetUser(id)
      [] h = "CreateUser" ->
            \E actor \in Seen(auth, UsersKey), req \in RouteCreateRequests : CreateUser(actor, req)
      [] h = "UpdateUser" ->
            \E actor \in Seen(auth, UsersKey), id \in Ids, req \in RouteUpdateRequests :
                UpdateUser(actor, id, req)
      [] h = "DeleteUser" -> \E actor \in Seen(auth, UsersKey), id \in Ids : DeleteUser(actor, id)
      [] OTHER -> ResourceHandler(h)

\* the step serves a request for handler h that carries auth
Request(h, auth) == Serve(h, auth, Handle(h, auth))
\* POST /users with a given body
PostUsers(auth, req) ==
    Serve("CreateUser", auth, \E actor \in Seen(auth, UsersKey) : CreateUser(actor, req))

DoRequest(H) == \E h \in H, auth \in Credentials : Request(h, auth)
\* requests that carry no token that verifies
DoUnverified(H) == \E h \in H, auth \in Credentials : AuthMiddleware(auth, now) # "" /\ Request(h, auth)

\* the routes of SetupRoutes over time: logins, profile requests, and requests
\* without a verifying token to every other protected route
NextGate ==
    \/ Tick
    \/ InitDB
    \/ DoRequest(PublicHandlers)
    \/ DoRequest(ProfileHandlers)
    \/ DoUnverified(UserHandlers)
    \/ DoUnverified(ResourceHandlers)

SpecGate == Init /\ [][NextGate]_vars

\* the /auth and /users routes behind their middleware chain
NextUsers ==
    \/ InitDB
    \/ DoRequest(PublicHandlers)
    \/ DoRequest(ProfileHandlers)
    \/ DoRequest(UserHandlers)

SpecUsers == Init /\ [][NextUsers]_vars

(* ---------- process start, then requests ---------- *)
NextBoot ==
    \/ Ping
    \/ Sleep
    \/ Connected
    \/ DoRegister(LoginRegisterRequests)
    \/ DoLogin
    \/ DoUpdateUser(StatusPatches)

\* the start runs on the main goroutine and is never starved
SpecBoot == Init /\ [][NextBoot]_vars /\ WF_vars(Ping) /\ WF_vars(Sleep) /\ WF_vars(Connected)

(* ---------- user management with every token ever issued ---------- *)
\* every token a login has issued stays usable until it expires
KeepAllTokens == tokens' = IF call'.code = StatusOK THEN tokens \cup {call'.body.token} ELSE tokens

ShieldRegisterRequests ==
    {RegisterRequest(TestName, "a@x.com", "alice", TestPassword, r) : r \in {RoleAdmin, RoleManager, RoleStaff}}

\* POST /auth/register
PostRegister(R) == \E req \in R : Serve("Register", Missing, Register(req))
\* POST /auth/login
PostLogin(L) ==
    \E v \in LoginRevisions, req \in L : Serve("Login", Missing, Login(v, req) /\ KeepAllTokens)
\* PUT /users/:id
PutUser(P) ==
    \E auth \in Credentials :
        Serve("UpdateUser", auth,
              \E actor \in Seen(auth, UsersKey), id \in Ids, req \in P : UpdateUser(actor, id, req))
\* DELETE /users/:id
DeleteUserRoute ==
    \E auth \in Credentials :
        Serve("DeleteUser", auth, \E actor \in Seen(auth, UsersKey), id \in Ids : DeleteUser(actor, id))

NextShield ==
    \/ InitDB
    \/ PostRegister(ShieldRegisterRequests)
    \/ PostLogin(RouteLoginRequests)
    \/ PutUser(RolePatches)
    \/ DeleteUserRoute

SpecShield == Init /\ [][NextShield]_vars

(* ---------- the user handlers run for the subject of any token ever issued ---------- *)
StaleRegisterRequests == {RegisterRequest(TestName, "a@x.com", "alice", TestPassword, RoleManager)}
StalePatches == {[EmptyPatch EXCEPT !.role = RoleStaff]}
StaleCreateRequests == {RegisterRequest(TestName, "b@x.com", "bob", TestPassword, RoleStaff)}
StaleCreateUser == \E t \in tokens, req \in StaleCreateRequests : CreateUser(t.sub, req)
StaleUpdateUser == \E t \in tokens, id \in Ids, req \in StalePatches : UpdateUser(t.sub, id, req)
StaleDeleteUser == \E t \in tokens, id \in Ids : DeleteUser(t.sub, id)

NextStale ==
    \/ InitDB
    \/ PostRegister(StaleRegisterRequests)
    \/ PostLogin(RouteLoginRequests)
    \/ StaleCreateUser
    \/ StaleUpdateUser
    \/ StaleDeleteUser

SpecStale == Init /\ [][NextStale]_vars

(* ---------- list requests with any page and limit ---------- *)
PageParams == {"", "0", "1", "2", "-1", "-2", "x"}
ListQueries == [page : PageParams, limit : PageParams, role : {""}, status : {""}]
DoGetUsers == \E q \in ListQueries : GetUsers(q)

NextList ==
    \/ InitDB
    \/ DoRegister(PolicyRegisterRequests)
    \/ DoDeleteUser
    \/ DoGetUsers

SpecList == Init /\ [][NextList]_vars

(* ---------- products ---------- *)
\* a *bool field is nil when left out of the JSON body, else it points to a value
Nil == {}
Ptr(b) == {b}
Deref(ptr) == CHOOSE b \in ptr : TRUE
\* decoded CreateProductRequest bodies (the other string fields behave as name)
CreateProductRequests == [name : {"Cola"}, price : {2}, stock : {0, 4}, available : {TRUE}]
\* decoded UpdateProductRequest bodies: a name, price or stock left out of the
\* body decodes to "", 0 and 0
UpdateProductRequests == [name : {"", "Soda"}, price : {0, 3}, stock : {-1, 0, 7}, available : {Nil, Ptr(FALSE)}]

CreateProduct(req) ==
    /\ DB
    /\ nextId <= MaxUsers
    /\ LET product == [id |-> nextId, name |-> req.name, price |-> req.price, stock |-> req.stock,
                       available |-> req.available, created_at |-> now, updated_at |-> now]
       IN /\ products' = products \cup {product}
          /\ call' = RespondJSON("CreateProduct", 0, product.id, "created", StatusCreated, product)
    /\ nextId' = nextId + 1
    /\ UNCHANGED <<DB, store, now, pending, tokens, boot, orders>>

\* the field-by-field application of UpdateProduct
ApplyProductPatch(product, req, t) ==
    [product EXCEPT !.name = IF req.name # "" THEN req.name ELSE @,
                    !.price = IF req.price > 0 THEN req.price ELSE @,
                    !.stock = IF req.stock >= 0 THEN req.stock ELSE @,
                    !.available = IF req.available # Nil THEN Deref(req.available) ELSE @,
                    !.updated_at = t]

UpdateProduct(id, req) ==
    /\ DB
    /\ IF {p \in products : p.id = id} = {}
       THEN /\ call' = Respond("UpdateProduct", 0, id, "notfound", StatusNotFound, "Product not found")
            /\ UNCHANGED products
       ELSE \E product \in {p \in products : p.id = id} :
              LET updated == ApplyProductPatch(product, req, now)
              IN /\ products' = (products \ {product}) \cup {updated}
                 /\ call' = RespondJSON("UpdateProduct", 0, id, "updated", StatusOK, updated)
    /\ UNCHANGED <<DB, store, nextId, now, pending, tokens, boot, orders>>

DoCreateProduct == \E req \in CreateProductRequests : CreateProduct(req)
DoUpdateProduct == \E id \in Ids, req \in UpdateProductRequests : UpdateProduct(id, req)

NextProducts ==
    \/ Tick
    \/ InitDB
    \/ DoCreateProduct
    \/ DoUpdateProduct

SpecProducts == Init /\ [][NextProducts]_vars

(* ---------- orders ---------- *)
OrderStatusPending == "pending"
PaymentStatusPending == "pending"
\* fmt.Sprintf("ORD-%d", time.Now().Unix()): the clock counts seconds
generateOrderNumber(t) == <<"ORD-", t>>

OrderItemRequests == {[name |-> "Tea", quantity |-> 2, price |-> 3], [name |-> "Cake", quantity |-> 1, price |-> 5]}
\* decoded CreateOrderRequest bodies
CreateOrderRequests ==
    [customer_name : {"Ann", "Ben"},
     items : {<<>>} \cup {<<i>> : i \in OrderItemRequests} \cup {<<i, j>> : i, j \in OrderItemRequests}]

\* totalAmount += itemReq.Price * float64(itemReq.Quantity), over the items in order
RECURSIVE TotalAmount(_)
TotalAmount(items) ==
    IF items = <<>> THEN 0
    ELSE TotalAmount(SubSeq(items, 1, Len(items) - 1)) + items[Len(items)].price * items[Len(items)].quantity

\* the orders collection has no index on order_number: InsertOne stores any document
CreateOrder(req) ==
    /\ DB
    /\ nextId <= MaxUsers
    /\ LET order == [id |-> nextId, order_number |-> generateOrderNumber(now),
                     customer_name |-> req.customer_name, total_amount |-> TotalAmount(req.items),
                     status |-> OrderStatusPending, payment_status |-> PaymentStatusPending,
                     items |-> req.items, created_at |-> now, updated_at |-> now]
       IN /\ orders' = orders \cup {order}
          /\ call' = RespondJSON("CreateOrder", 0, order.id, "created", StatusCreated, order)
    /\ nextId' = nextId + 1
    /\ UNCHANGED <<DB, store, now, pending, tokens, boot, products>>

DoCreateOrder == \E req \in CreateOrderRequests : CreateOrder(req)

NextOrders ==
    \/ Tick
    \/ InitDB
    \/ DoCreateOrder

SpecOrders == Init /\ [][NextOrders]_vars

(* ====================== properties ====================== *)
\* the account with the given identifier in a store
UserOf(s, id) == CHOOSE u \in s : u.id = id
Has(s, id) == FindById(s, id) # {}
\* the account the step added to the store
Created == store' \ store

\* the hierarchy admin > manager > staff; any other role string has no rank
Rank(r) == IF r = RoleAdmin THEN 3 ELSE IF r = RoleManager THEN 2 ELSE IF r = RoleStaff THEN 1 ELSE 0

\* C1: CreateUser lets the creation through exactly for the pairs (actor role,
\* requested role) (admin, manager), (admin, staff) and (manager, staff); for
\* every other pair of roles in {admin, manager, staff} it answers 403
\* Forbidden and inserts no account.
CreateAllowed == {<<RoleAdmin, RoleManager>>, <<RoleAdmin, RoleStaff>>, <<RoleManager, RoleStaff>>}
C1_CreateUserPolicy ==
    [][call'.op = "CreateUser" /\ Has(store, call'.actor) =>
        \A req \in PolicyRegisterRequests :
            (CreateUser(call'.actor, req) /\ UserOf(store, call'.actor).role \in Roles /\ req.role \in Roles) =>
                IF <<UserOf(store, call'.actor).role, req.role>> \in CreateAllowed
                THEN /\ call'.code \in {StatusCreated, StatusConflict}
                     /\ call'.code = StatusCreated =>
                            \E u \in Created : Created = {u} /\ u.role = req.role /\ u.email = req.email
                ELSE call'.code = StatusForbidden /\ store' = store]_vars

\* a manager has created a staff account
C1_Witness ==
    /\ call.op = "CreateUser" /\ call.code = StatusCreated
    /\ Has(store, call.actor) /\ UserOf(store, call.actor).role = RoleManager
    /\ Has(store, call.id) /\ UserOf(store, call.id).role = RoleStaff

\* C2: after a successful CreateUser or UpdateUser the role of the account
\* created or updated is the role it had before the request or lies strictly
\* below the actor's role in admin > manager > staff.
C2_NoPeerOrSuperior ==
    [][(call'.op \in {"CreateUser", "UpdateUser"} /\ call'.code \in {StatusOK, StatusCreated}
        /\ Has(store, call'.actor) /\ Has(store', call'.id)) =>
            \/ Has(store, call'.id) /\ UserOf(store, call'.id).role = UserOf(store', call'.id).role
            \/ Rank(UserOf(store', call'.id).role) < Rank(UserOf(store, call'.actor).role)]_vars

\* C3: DeleteUser by an admin answers 403 and keeps the record unchanged when
\* the target is an admin or a manager, and answers 204 and removes the record
\* when the target is a staff account.
C3_AdminDelete ==
    [][(call'.op = "DeleteUser" /\ Has(store, call'.actor) /\ Has(store, call'.id)
        /\ UserOf(store, call'.actor).role = RoleAdmin) =>
            /\ UserOf(store, call'.id).role \in {RoleAdmin, RoleManager} =>
                   call'.code = StatusForbidden /\ store' = store
            /\ UserOf(store, call'.id).role = RoleStaff =>
                   /\ call'.code = StatusNoContent
                   /\ ~Has(store', call'.id)
                   /\ store' = store \ {UserOf(store, call'.id)}]_vars

\* an admin has deleted a staff account
C3_Witness ==
    /\ call.op = "DeleteUser" /\ call.code = StatusNoContent
    /\ Has(store, call.actor) /\ UserOf(store, call.actor).role = RoleAdmin
    /\ ~Has(store, call.id)

\* C4: DeleteUser by a staff actor answers 403 for a target of any role and
\* removes no record.
C4_StaffDeleteDenied ==
    [][(call'.op = "DeleteUser" /\ Has(store, call'.actor) /\ Has(store, call'.id)
        /\ UserOf(store, call'.actor).role = RoleStaff) =>
            call'.code = StatusForbidden /\ store' = store]_vars

\* C5: UpdateUser by a manager is refused with 403 exactly when the target's
\* current role is not staff or the patch carries a role (also the target's
\* own); UpdateUser by a staff actor is refused with 403 for every target; a
\* refused request leaves the store unchanged.
C5_NonAdminUpdate ==
    [][(call'.op = "UpdateUser" /\ Has(store, call'.actor) /\ Has(store, call'.id)) =>
        \A req \in PolicyUpdateRequests :
            UpdateUser(call'.actor, call'.id, req) =>
                /\ UserOf(store, call'.actor).role = RoleManager =>
                       (call'.code = StatusForbidden <=>
                            (UserOf(store, call'.id).role # RoleStaff \/ req.role # Omitted))
                /\ UserOf(store, call'.actor).role = RoleStaff => call'.code = StatusForbidden
                /\ call'.code = StatusForbidden => store' = store]_vars

\* a manager was refused a patch that carries a role for a staff account
C5_Witness ==
    /\ call.op = "UpdateUser" /\ call.code = StatusForbidden
    /\ call.error = "Manager cannot change user roles"
    /\ Has(store, call.actor) /\ UserOf(store, call.actor).role = RoleManager
    /\ Has(store, call.id) /\ UserOf(store, call.id).role = RoleStaff

\* C6: UpdateUser by an admin is refused by the policy if and only if the
\* target is another admin account (not the actor itself) and the patch sets
\* the role to something other than admin.
C6_AdminUpdateDenied ==
    [][(call'.op = "UpdateUser" /\ Has(store, call'.actor) /\ Has(store, call'.id)
        /\ UserOf(store, call'.actor).role = RoleAdmin) =>
        \A req \in PolicyUpdateRequests :
            UpdateUser(call'.actor, call'.id, req) =>
                (call'.code = StatusForbidden <=>
                    /\ UserOf(store, call'.id).role = RoleAdmin
                    /\ call'.id # call'.actor
                    /\ req.role \notin {Omitted, RoleAdmin})]_vars

\* C7: Register with an email or a username that a stored account holds
\* answers 409 Conflict and leaves the store as it was: no record is added
\* and no field of an existing record changes.
C7_RegisterDuplicate ==
    [][call'.op = "Register" =>
        \A req \in RegisterRequests :
            (Register(req) /\ \E u \in store : u.email = req.email \/ u.username = req.username) =>
                call'.code = StatusConflict /\ store' = store]_vars

\* Register was refused for a username held by an account with another email
C7_Witness ==
    /\ call.op = "Register" /\ call.code = StatusConflict
    /\ \E u \in store : u.username = "alice" /\ u.email = TestEmail
    /\ \A u \in store : u.email # "a@x.com"

\* C8: in every state reached by InitDB, Register, CreateUser, UpdateUser and
\* DeleteUser served one after the other, no two stored accounts share an
\* email and no two share a username.
C8_UniqueEmailAndUsername ==
    \A u \in store, w \in store : u # w => u.email # w.email /\ u.username # w.username

\* C9: when two Register or CreateUser requests with the same email have both
\* passed the existence check before either inserted, at most one account
\* with that email is stored, the other request being answered 409.
C9_RaceLeavesOneAccount ==
    \A e \in Emails : Cardinality(FindByEmail(store, e)) <= 1

\* C10: Login answers an email that matches no account and a password that
\* does not verify with the same status and the same message, issues no
\* token and changes no account.
C10_LoginSameFailure ==
    [][call'.op = "Login" =>
        \A v \in LoginRevisions, req \in LoginRequests :
            (Login(v, req) /\ \A u \in FindByEmail(store, req.email) : ~CheckPassword(req.password, u.password)) =>
                /\ call'.code = StatusUnauthorized
                /\ call'.error = LoginMessages(v).invalid
                /\ call'.id = 0
                /\ store' = store]_vars

\* Login refused a wrong password for a stored account
C10_Witness ==
    /\ call.op = "Login" /\ call.at = "badpw" /\ call.code = StatusUnauthorized
    /\ \E u \in store : u.email = TestEmail

\* C11: Login issues no token for an account whose stored status is
\* inactive: a 200 response is only written for an active account, and a
\* request whose password verifies against an inactive account is answered
\* 401 with the inactive-account message, which differs from the
\* invalid-credentials message, carries no token and leaves the store (and so
\* last_login) as it was.
C11_InactiveLogin ==
    [][call'.op = "Login" =>
        /\ call'.code = StatusOK => UserOf(store, call'.id).status = StatusActive
        /\ \A v \in LoginRevisions, req \in LoginRequests :
              (/\ Login(v, req)
               /\ FindByEmail(store, req.email) # {}
               /\ \A u \in FindByEmail(store, req.email) :
                     CheckPassword(req.password, u.password) /\ u.status = StatusInactive) =>
                  /\ call'.code = StatusUnauthorized
                  /\ call'.error = LoginMessages(v).inactive
                  /\ call'.error # LoginMessages(v).invalid
                  /\ "token" \notin DOMAIN call'.body
                  /\ store' = store]_vars

\* Login refused an inactive account that has never logged in
C11_Witness ==
    /\ call.op = "Login" /\ call.at = "inactive" /\ call.code = StatusUnauthorized
    /\ \E u \in store : u.status = StatusInactive /\ u.last_login = NoTime

\* C12: Login with a verifying password on an active account answers 200 with
\* a token for that account whether or not the UpdateOne of last_login
\* succeeded; the store is either unchanged (update failed) or differs only
\* in that account's last_login and updated_at, both set to the login time.
C12_LoginBestEffortStamp ==
    [][call'.op = "Login" =>
        \A v \in LoginRevisions, req \in LoginRequests :
            (/\ Login(v, req)
             /\ FindByEmail(store, req.email) # {}
             /\ \A u \in FindByEmail(store, req.email) :
                   CheckPassword(req.password, u.password) /\ u.status = StatusActive) =>
                /\ call'.code = StatusOK
                /\ "token" \in DOMAIN call'.body
                /\ call'.body.token.sub = call'.id
                /\ Has(store, call'.id)
                /\ \/ store' = store
                   \/ /\ store' = ReplaceOne(store, UserOf(store, call'.id),
                                              [UserOf(store, call'.id) EXCEPT !.last_login = now,
                                                                              !.updated_at = now])
                      /\ UserOf(store', call'.id).last_login = now]_vars

\* a login at a later time succeeded although its update of last_login failed
C12_Witness ==
    /\ call.op = "Login" /\ call.code = StatusOK /\ now > 0
    /\ call.body.user.last_login = now
    /\ UserOf(store, call.id).last_login = NoTime

\* C13: in every reachable state every stored account has a role among
\* admin, manager and staff, a status among active and inactive, and a
\* non-empty password hash, whatever Register, CreateUser and UpdateUser were
\* sent.
C13_StoredAccountsValid ==
    \A u \in store : u.role \in Roles /\ u.status \in Statuses /\ u.password # ""

\* the fields an UpdateUserRequest can carry
PatchFields == {"name", "email", "username", "role", "status"}

\* C14: a successful UpdateUser gives every field present in the patch the
\* value of the patch and keeps every field the patch leaves out, and the
\* password hash, last_login, created_at and id, as they were; updated_at is
\* set to the time of the request; every other stored account is unchanged.
C14_UpdateFrame ==
    [][(call'.op = "UpdateUser" /\ call'.code = StatusOK) =>
        \A req \in UpdatePatches :
            UpdateUser(call'.actor, call'.id, req) =>
                /\ Has(store, call'.id) /\ Has(store', call'.id)
                /\ LET old == UserOf(store, call'.id)
                       new == UserOf(store', call'.id)
                   IN /\ \A f \in PatchFields : new[f] = IF req[f] = Omitted THEN old[f] ELSE req[f]
                      /\ new.id = old.id /\ new.password = old.password
                      /\ new.last_login = old.last_login /\ new.created_at = old.created_at
                      /\ new.updated_at = now
                      /\ store' \ {new} = store \ {old}]_vars

\* a patch of the name alone was applied at a later time to an account that
\* had been made inactive, while another account is stored
C14_Witness ==
    /\ call.op = "UpdateUser" /\ call.code = StatusOK /\ now > 0
    /\ \E u \in store :
          /\ u.id = call.id /\ u.name = "New Name" /\ u.status = StatusInactive
          /\ u.updated_at = now /\ u.created_at < now
    /\ Cardinality(store) > 1

\* C15: UpdateUser whose patch carries an email or a username held by an
\* account other than the target answers 409 and writes nothing; a patch that
\* repeats the target's own email or username is not answered 409.
C15_UpdateConflict ==
    [][(call'.op = "UpdateUser" /\ Has(store, call'.actor) /\ Has(store, call'.id)) =>
        \A req \in UpdatePatches :
            (/\ UpdateUser(call'.actor, call'.id, req)
             /\ UpdateUserPermission(UserOf(store, call'.actor).role, UserOf(store, call'.id).role,
                                     req.role) = "") =>
                LET user == UserOf(store, call'.id)
                    others == store \ {user}
                IN /\ ((req.email # Omitted /\ \E o \in others : o.email = req.email /\ o.email # user.email)
                        \/ (req.username # Omitted
                            /\ \E o \in others : o.username = req.username /\ o.username # user.username)) =>
                            call'.code = StatusConflict /\ store' = store
                   /\ ((req.email \in {Omitted, user.email}) /\ (req.username \in {Omitted, user.username})) =>
                            call'.code = StatusOK]_vars

\* a patch was refused for a username another account holds
C15_Witness ==
    /\ call.op = "UpdateUser" /\ call.code = StatusConflict /\ call.error = "Username already in use"
    /\ \E u \in store, o \in store : u.id = call.id /\ o.id # u.id /\ o.username # u.username

\* C16: UpdateUser and DeleteUser addressed to an id that matches no stored
\* account answer 404 (never 403) for every actor that is itself a stored
\* account, whatever its role, and leave the store unchanged.
C16_AbsentTargetNotFound ==
    [][(call'.op \in {"UpdateUser", "DeleteUser"} /\ Has(store, call'.actor) /\ ~Has(store, call'.id)) =>
        /\ call'.code = StatusNotFound
        /\ call'.code # StatusForbidden
        /\ store' = store]_vars

\* a staff actor addressed UpdateUser to an id that matches no account
C16_Witness ==
    /\ call.op = "UpdateUser" /\ call.code = StatusNotFound
    /\ Has(store, call.actor) /\ UserOf(store, call.actor).role = RoleStaff
    /\ ~Has(store, call.id)

\* C17: every route of the profile, users, products, orders, events and
\* reservations groups is registered behind AuthMiddleware, and a request to
\* one of them whose token is missing, malformed or expired is answered 401 by
\* the gate: the handler does not run and the store, the identifier counter
\* and the issued tokens are as before.
C17_AuthGateFailsClosed ==
    [][/\ \A h \in ProtectedHandlers : RouteOf(h).protected
       /\ call'.op \in ProtectedHandlers =>
            \A auth \in Credentials :
                (AuthMiddleware(auth, now) # "" /\ Request(call'.op, auth)) =>
                    /\ call'.code = StatusUnauthorized
                    /\ call'.at = "AuthMiddleware"
                    /\ call'.error = AuthMiddleware(auth, now)
                    /\ UNCHANGED <<store, nextId, pending, tokens>>]_vars

\* DELETE /users/:id with the expired token of the stored admin was refused
C17_Witness ==
    /\ call.op = "DeleteUser" /\ call.at = "AuthMiddleware" /\ call.error = "Expired"
    /\ \E t \in tokens : now >= t.exp /\ t.role = RoleAdmin /\ Has(store, t.sub)

C19_ManagerCreatesStaff ==
    [][call'.op = "CreateUser" =>
        \A auth \in Credentials, req \in RouteCreateRequests :
            (/\ PostUsers(auth, req)
             /\ AuthMiddleware(auth, now) = "" /\ auth.token.role = RoleManager
             /\ Has(store, Subject(auth)) /\ UserOf(store, Subject(auth)).role = RoleManager) =>
                /\ req.role = RoleManager => call'.code = StatusForbidden
                /\ (req.role = RoleStaff /\ ~RegisterExists(store, req)) =>
                       /\ call'.code = StatusCreated
                       /\ \E u \in Created : u.role = RoleStaff /\ u.email = req.email]_vars

\* the user documents a response body carries
UserViews(body) ==
    IF "data" \in DOMAIN body THEN {body.data[i] : i \in DOMAIN body.data}
    ELSE IF "user" \in DOMAIN body THEN {body.user} ELSE {body}
ViewHandlers == {"Register", "Login", "GetProfile", "GetUsers", "GetUser", "CreateUser", "UpdateUser"}

\* C20: no response of Register, Login, GetProfile, GetUsers, GetUser,
\* CreateUser or UpdateUser has a password field, neither at the top of the
\* body nor in a user document it carries.
C20_NoPasswordInResponse ==
    call.op \in ViewHandlers =>
        /\ "password" \notin DOMAIN call.body
        /\ \A r \in UserViews(call.body) : "password" \notin DOMAIN r

\* GET /users listed several stored accounts, each of which has a password hash
C20_Witness ==
    /\ call.op = "GetUsers" /\ call.code = StatusOK
    /\ Len(call.body.data) >= 2
    /\ \A u \in store : u.password = HashPassword(TestPassword)

\* C21: whenever GetProfile, CreateUser, UpdateUser or DeleteUser runs for a
\* request the gates let through, it finds the identity in the context: it
\* neither answers that the identity is missing nor fails on its absence.
C21_IdentityFound ==
    [][(call'.op \in IdentityHandlers /\ call'.at \notin GateLabels) =>
        call'.at \notin {"nocontext", "panic"}]_vars

\* the accounts of a store whose role is admin
Admins(s) == {u \in s : u.role = RoleAdmin}

C23_ManagerDeleteManagerDenied ==
    [][(call'.op = "DeleteUser" /\ Has(store, call'.actor) /\ Has(store, call'.id)
        /\ UserOf(store, call'.actor).role = RoleManager
        /\ UserOf(store, call'.id).role = RoleManager) =>
            call'.code = StatusForbidden /\ store' = store]_vars

\* the account u after a step that may have changed the given fields only
SameBut(u, w, fields) == \A f \in DOMAIN u \ fields : w[f] = u[f]

\* C24 (as stated): a successful Login removes and adds no account, changes
\* no field of the account that logged in other than last_login, and changes
\* no other account.
C24_LoginStampsLastLoginOnly ==
    [][(call'.op = "Login" /\ call'.code = StatusOK) =>
        /\ {u.id : u \in store'} = {u.id : u \in store}
        /\ \A u \in store :
              IF u.id = call'.id
              THEN SameBut(u, UserOf(store', u.id), {"last_login"})
              ELSE u \in store']_vars

\* C24 (amended): a successful Login removes and adds no account, changes no
\* field of the account that logged in other than last_login and updated_at,
\* and changes no other account.
C24_LoginFrame ==
    [][(call'.op = "Login" /\ call'.code = StatusOK) =>
        /\ {u.id : u \in store'} = {u.id : u \in store}
        /\ \A u \in store :
              IF u.id = call'.id
              THEN SameBut(u, UserOf(store', u.id), {"last_login", "updated_at"})
              ELSE u \in store']_vars

\* a login after the account's creation was stored: the account carries the
\* time of the login in last_login and updated_at, next to another account
C24_Witness ==
    /\ call.op = "Login" /\ call.code = StatusOK /\ now > 0
    /\ \E u \in store : /\ u.id = call.id /\ u.last_login = now
                         /\ u.updated_at = now /\ u.created_at < now
    /\ \E w \in store : w.id # call.id

\* the health check is over: the loop was left by break or by log.Fatal
PingLoopDone == boot.pc \in {"connected", "serving", "fatal"}
\* the operations that are requests to the served routes
Served == {"Register", "Login", "CreateUser", "UpdateUser", "DeleteUser"}

\* C25: the health check of InitDB ends, after at most 3 pings; no ping
\* follows a successful one; the k-th failed ping that is not the last is
\* followed by a wait of k seconds (1 s, then 2 s); after the third failed
\* ping the process is dead: the handle is never set and no request is served.
C25_PingLoopTerminates ==
    /\ <>PingLoopDone
    /\ [](/\ boot.pings <= 3
          /\ boot.waits = [k \in 1..boot.i |-> k]
          /\ boot.pings = boot.i + (IF boot.pc = "ping" THEN 0 ELSE 1)
          /\ boot.pc = "fatal" => boot.pings = 3 /\ boot.waits = <<1, 2>> /\ ~DB /\ call.op = "Ping"
          /\ DB => boot.pc = "serving")
    /\ [][(PingLoopDone => boot'.pings = boot.pings /\ boot'.waits = boot.waits)
          /\ (boot.pc = "fatal" => UNCHANGED vars)
          /\ (call'.op \in Served => boot.pc = "serving")]_vars

\* the third ping failed after waits of 1 s and 2 s
C25_Witness ==
    boot.pc = "fatal" /\ boot.pings = 3 /\ boot.waits = <<1, 2>> /\ call.at = "failed"

\* the product with the given identifier
ProductOf(ps, id) == CHOOSE p \in ps : p.id = id

\* C26: an UpdateProduct whose decoded stock is 0 (stock left out of the body,
\* or given as 0) leaves the stored stock of the product as it was.
C26_StockNotReset ==
    [][(call'.op = "UpdateProduct" /\ call'.code = StatusOK) =>
        \A req \in UpdateProductRequests :
            (UpdateProduct(call'.id, req) /\ req.stock = 0) =>
                ProductOf(products', call'.id).stock = ProductOf(products, call'.id).stock]_vars

\* C27: POST /auth/register without credentials, with an email and a username
\* no account holds, answers 201 and stores an account with the requested
\* role (admin included) and status active, and a login with the registered
\* email and password then passes every check of Login.
C27_RegisterAnyRole ==
    [][call'.op = "Register" =>
        \A req \in ShieldRegisterRequests :
            (Serve("Register", Missing, Register(req)) /\ ~RegisterExists(store, req)) =>
                /\ call'.code = StatusCreated
                /\ \E u \in Created :
                      /\ Created = {u}
                      /\ u.id = call'.id /\ u.email = req.email /\ u.username = req.username
                      /\ u.role = req.role /\ u.status = StatusActive
                      /\ \A v \in LoginRevisions :
                            LoginOutcome(v, store', [email |-> req.email, password |-> req.password], u).code
                                = StatusOK]_vars

\* an account registered with role admin has logged in and holds an admin token
C27_Witness ==
    /\ call.op = "Login" /\ call.code = StatusOK
    /\ Has(store, call.id) /\ UserOf(store, call.id).email = "a@x.com"
    /\ UserOf(store, call.id).role = RoleAdmin
    /\ call.body.token.role = RoleAdmin /\ call.body.token.sub = call.id

\* C28: CreateUser, UpdateUser and DeleteUser answer 403 exactly when the Role
\* Policy refuses the role the actor's account has in the store when the
\* request is served, whatever role the actor's token carries; when the
\* actor's account is not in the store the request fails and the store is
\* unchanged.
C28_StoredRoleDecides ==
    [][(call'.op \in {"CreateUser", "UpdateUser", "DeleteUser"} /\ call'.actor # NoActor) =>
        IF ~Has(store, call'.actor)
        THEN /\ store' = store
             /\ \/ call'.code = StatusInternalServerError
                \/ call'.op = "DeleteUser" /\ ~Has(store, call'.id) /\ call'.code = StatusNotFound
        ELSE LET role == UserOf(store, call'.actor).role
             IN /\ call'.op = "CreateUser" =>
                     \A req \in StaleCreateRequests :
                         CreateUser(call'.actor, req) =>
                             (call'.code = StatusForbidden <=> CreateUserPermission(role, req.role) # "")
                /\ (call'.op = "UpdateUser" /\ Has(store, call'.id)) =>
                     \A req \in StalePatches :
                         UpdateUser(call'.actor, call'.id, req) =>
                             (call'.code = StatusForbidden <=>
                                 UpdateUserPermission(role, UserOf(store, call'.id).role, req.role) # "")
                /\ (call'.op = "DeleteUser" /\ Has(store, call'.id)) =>
                     (call'.code = StatusForbidden <=>
                         DeleteUserPermission(role, UserOf(store, call'.id).role) # "")
                /\ call'.code = StatusForbidden => store' = store]_vars

\* CreateUser was refused as for a staff actor although the actor holds a
\* token issued when its stored role was manager
C28_Witness ==
    /\ call.op = "CreateUser" /\ call.code = StatusForbidden
    /\ call.error = "Staff cannot create user accounts"
    /\ Has(store, call.actor) /\ UserOf(store, call.actor).role = RoleStaff
    /\ \E t \in tokens : t.sub = call.actor /\ t.role = RoleManager

\* C29: any two stored orders have different order numbers.
C29_OrderNumbersUnique ==
    \A o1, o2 \in orders : o1.id # o2.id => o1.order_number # o2.order_number

\* t is the least integer not below a / b (b # 0)
IsCeil(t, a, b) == IF b > 0 THEN t * b >= a /\ (t - 1) * b < a ELSE t * b <= a /\ (t - 1) * b > a

\* C30: GetUsers, for every page and limit that parseIntParam yields, answers
\* 200 with the envelope, total_pages is the ceiling of total / limit, and
\* the skip (page - 1) * limit is not negative.
C30_PaginationEnvelope ==
    [][call'.op = "GetUsers" =>
        \A q \in ListQueries :
            GetUsers(q) =>
                LET page == parseIntParam(q.page, 1)
                    limit == parseIntParam(q.limit, 10)
                IN /\ call'.code = StatusOK
                   /\ (page - 1) * limit >= 0
                   /\ call'.body.page = page /\ call'.body.limit = limit
                   /\ IsCeil(call'.body.total_pages, call'.body.total, limit)]_vars
====
